---------------------------- MODULE Spec2Model ----------------------------
(***************************************************************************)
(* A model of app.py, the Streamlit "AI Company Secretary Agent".          *)
(*                                                                         *)
(* The script is re-executed top to bottom on every user interaction       *)
(* ("script run").  State that survives a run: the st.cache_resource memo  *)
(* of load_base_rules_text, the widget values (api_key, uploaded_files,    *)
(* user_query) and the base PDF on disk.  A run blocks in                  *)
(* model.generate_content; the reply of the hosted model is an input.      *)
(*                                                                         *)
(* Two kinds of strings occur.                                             *)
(*  - Document text (base statute, uploads, prompts' knowledge context) is *)
(*    only ever concatenated and sliced.  It is a sequence of runs         *)
(*    [src, off, len]: characters off .. off+len-1 of the character        *)
(*    stream src.  Lengths keep their real values (60000, 50000, 10000).   *)
(*  - The model's reply is searched, split and filtered.  It is a sequence *)
(*    of lexical items: "H" is the literal Month/Trigger, "F" is ```,      *)
(*    "c" is the word csv (so ```csv is F followed by c), "," a comma,     *)
(*    "\n" a line break, " " other whitespace, "x" any other character.    *)
(*    Items are taken as given: a token that would only arise by joining   *)
(*    the fragments left and right of a removed fence is not represented.  *)
(***************************************************************************)
EXTENDS Integers, Sequences, FiniteSets, TLC

VARIABLES
    disk,           \* the file A2013-18.pdf on disk
    cache,          \* st.cache_resource memo of load_base_rules_text()
    api_key,        \* sidebar text input
    uploaded_files, \* file_uploader value
    user_query,     \* query text input
    pc,             \* position of the script: "start", "idle", "gen_wait", "query_wait"
    rendered,       \* widgets drawn by the last run
    shown,          \* elements displayed by the current run, in order
    sent,           \* prompts handed to generate_content by the current run
    raised,         \* exception that escaped the current run ("none" if none)
    halted,         \* the current run ended in st.stop()
    extra_text,     \* text extracted from the uploads by the current run
    extracted,      \* extract_text_from_uploaded_pdfs was called in the current run
    result,         \* value returned by generate_compliance_checklist
    seg             \* the table segment of the checklist handler

vars == <<disk, cache, api_key, uploaded_files, user_query, pc, rendered, shown,
          sent, raised, halted, extra_text, extracted, result, seg>>

-----------------------------------------------------------------------------
(* Bounds of the model *)

Slack == 3          \* base texts of length budget-Slack .. budget+1 are tried
MaxFiles == 2       \* uploads per interaction
MaxReplyLen == 5    \* lexical items in a model reply

-----------------------------------------------------------------------------
(* Document text: runs of characters of named streams *)

Run(s, o, n) == [src |-> s, off |-> o, len |-> n]

RECURSIVE LenText(_)
LenText(t) == IF t = <<>> THEN 0 ELSE Head(t).len + LenText(Tail(t))

\* Python a + b on texts in normal form (no empty run, contiguous runs merged)
Cat(a, b) ==
    IF a = <<>> THEN b
    ELSE IF b = <<>> THEN a
    ELSE LET l == a[Len(a)]
             h == Head(b)
         IN IF l.src = h.src /\ l.off + l.len = h.off
            THEN SubSeq(a, 1, Len(a) - 1) \o <<Run(l.src, l.off, l.len + h.len)>> \o Tail(b)
            ELSE a \o b

\* Python t[:k]
RECURSIVE Take(_, _)
Take(t, k) ==
    IF t = <<>> \/ k <= 0 THEN <<>>
    ELSE IF Head(t).len >= k THEN <<Run(Head(t).src, Head(t).off, k)>>
    ELSE <<Head(t)>> \o Take(Tail(t), k - Head(t).len)

Lit(s, n) == IF n = 0 THEN <<>> ELSE <<Run(s, 0, n)>>

-----------------------------------------------------------------------------
(* Reply text: sequences of lexical items *)

HeaderToken == "H"
Alphabet == {"H", "F", "c", ",", "\n", " ", "x"}

RECURSIVE SeqsUpTo(_, _)
SeqsUpTo(S, n) ==
    IF n = 0 THEN {<<>>}
    ELSE LET shorter == SeqsUpTo(S, n - 1)
         IN shorter \cup {Append(s, a) : s \in {q \in shorter : Len(q) = n - 1}, a \in S}

Has(s, a) == \E i \in 1..Len(s) : s[i] = a

\* Python s.split(tok) for a one-item separator: cut at every occurrence
RECURSIVE PySplitFrom(_, _, _)
PySplitFrom(s, tok, cur) ==
    IF s = <<>> THEN <<cur>>
    ELSE IF Head(s) = tok THEN <<cur>> \o PySplitFrom(Tail(s), tok, <<>>)
    ELSE PySplitFrom(Tail(s), tok, Append(cur, Head(s)))

PySplit(s, tok) == PySplitFrom(s, tok, <<>>)

\* Python sep.join(parts)
RECURSIVE PyJoin(_, _)
PyJoin(parts, tok) ==
    IF parts = <<>> THEN <<>>
    ELSE IF Len(parts) = 1 THEN parts[1]
    ELSE parts[1] \o <<tok>> \o PyJoin(Tail(parts), tok)

\* Python s.replace("```csv", ""): leftmost non-overlapping occurrences of F c
RECURSIVE RemoveCsvFence(_)
RemoveCsvFence(s) ==
    IF Len(s) < 2 THEN s
    ELSE IF s[1] = "F" /\ s[2] = "c" THEN RemoveCsvFence(Tail(Tail(s)))
    ELSE <<Head(s)>> \o RemoveCsvFence(Tail(s))

\* Python s.replace("```", "")
RemoveFence(s) == SelectSeq(s, LAMBDA a : a # "F")

\* .replace("```csv", "").replace("```", "")
StripFences(s) == RemoveFence(RemoveCsvFence(s))

IsSpace(a) == a \in {" ", "\n"}

RECURSIVE LStrip(_)
LStrip(s) == IF s # <<>> /\ IsSpace(Head(s)) THEN LStrip(Tail(s)) ELSE s

RECURSIVE RStrip(_)
RStrip(s) ==
    IF s # <<>> /\ IsSpace(s[Len(s)]) THEN RStrip(SubSeq(s, 1, Len(s) - 1)) ELSE s

\* Python s.strip()
PyStrip(s) == RStrip(LStrip(s))

-----------------------------------------------------------------------------
(* Program constants *)

CtxBudget == 60000      \* full_knowledge_base[:60000]
QBaseBudget == 50000    \* base_rules_text[:50000]
QExtraBudget == 10000   \* extra_context[:10000]

-----------------------------------------------------------------------------
(* Inputs *)

\* The base PDF on disk: absent, present but unreadable (open, PdfReader or a
\* page's extract_text raises), or readable with len characters of text.
DiskState(s, n) == [state |-> s, len |-> n]
BaseLens == {0} \cup {CtxBudget - d : d \in 0..Slack} \cup {CtxBudget + 1}
DiskStates == {DiskState("absent", 0), DiskState("unreadable", 0)}
              \cup {DiskState("ok", n) : n \in BaseLens}

\* Uploaded PDFs.  pages[i] is the length of page i's text; corrupt: PdfReader
\* raises; badPage = j > 0: extracting page j raises.
Files ==
    { [name |-> "good",    corrupt |-> FALSE, pages |-> <<1>>,    badPage |-> 0],
      [name |-> "corrupt", corrupt |-> TRUE,  pages |-> <<>>,     badPage |-> 0],
      [name |-> "partial", corrupt |-> FALSE, pages |-> <<2, 1>>, badPage |-> 2] }
Uploads == SeqsUpTo(Files, MaxFiles)

Keys == {"", "key"}
Queries == {"", "q"}

\* What generate_content does: a reply text, or an exception with a message
Outcome(o, t) == [ok |-> o, text |-> t]
Replies == SeqsUpTo(Alphabet, MaxReplyLen)
ErrorTexts == {<<"x">>, <<"x", ",", "x">>}
AllOutcomes == {Outcome(TRUE, r) : r \in Replies} \cup {Outcome(FALSE, e) : e \in ErrorTexts}
AppReplies == {<<>>, <<"x">>, <<"H">>, <<"x", "H", ",", "x">>}
AppOutcomes == {Outcome(TRUE, r) : r \in AppReplies} \cup {Outcome(FALSE, e) : e \in ErrorTexts}

-----------------------------------------------------------------------------
(* Helper functions of app.py *)

\* load_base_rules_text: (text, status message); text is None on failure
load_base_rules_text(d) ==
    IF d.state = "absent"
    THEN [isNone |-> TRUE, text |-> <<>>, msg |-> "not found"]
    ELSE IF d.state = "ok"
    THEN [isNone |-> FALSE, text |-> Lit("base", d.len), msg |-> "loaded"]
    ELSE [isNone |-> TRUE, text |-> <<>>, msg |-> "error reading"]

\* @st.cache_resource: the first return value is kept for the process lifetime
CachedLoad(c, d) == IF c.set THEN c.val ELSE load_base_rules_text(d)

\* Characters of the first n pages, each followed by "\n"
RECURSIVE PagesLen(_, _)
PagesLen(pages, n) == IF n = 0 THEN 0 ELSE pages[n] + 1 + PagesLen(pages, n - 1)

\* What one file adds to combined_text before the loop body ends or raises
FileText(f) ==
    IF f.corrupt THEN <<>>
    ELSE IF f.badPage > 0 THEN Lit(f.name, PagesLen(f.pages, f.badPage - 1))
    ELSE Lit(f.name, PagesLen(f.pages, Len(f.pages)))

FileFails(f) == f.corrupt \/ f.badPage > 0

\* extract_text_from_uploaded_pdfs: combined_text and the st.error calls
RECURSIVE extract_text_from_uploaded_pdfs(_)
extract_text_from_uploaded_pdfs(files) ==
    IF files = <<>> THEN [text |-> <<>>, errors |-> <<>>]
    ELSE LET f == Head(files)
             rest == extract_text_from_uploaded_pdfs(Tail(files))
         IN [text |-> Cat(FileText(f), rest.text),
             errors |-> (IF FileFails(f) THEN <<f.name>> ELSE <<>>) \o rest.errors]

\* clean_csv_output with the comma filter left out (a faulty variant)
CleanKeepAllLines(text) ==
    PyJoin(PySplit(PyStrip(StripFences(text)), "\n"), "\n")

\* clean_csv_output
clean_csv_output(text) ==
    LET stripped == PyStrip(StripFences(text))
        lines == PySplit(stripped, "\n")
        clean_lines == SelectSeq(lines, LAMBDA line : Has(line, ","))
    IN PyJoin(clean_lines, "\n")

\* A faulty variant of ChecklistContext: each text is cut on its own, as q_prompt does
ChecklistContextSplit(base_text, extra) ==
    Cat(Cat(Take(base_text, QBaseBudget), Lit("sep", 2)), Take(extra, QExtraBudget))

\* full_knowledge_base[:60000] of generate_compliance_checklist
ChecklistContext(base_text, extra) ==
    Take(Cat(Cat(base_text, Lit("sep", 2)), extra), CtxBudget)

\* {base_rules_text[:50000]} newline, indentation, {extra_context[:10000]} of q_prompt
QueryContext(base_text, extra) ==
    Cat(Cat(Take(base_text, QBaseBudget), Lit("qsep", 9)), Take(extra, QExtraBudget))

\* pd.read_csv(io.StringIO(clean_csv)): blank lines are skipped, the first line
\* names the columns; no line at all raises EmptyDataError; a line after the
\* first data line with more fields than expected raises ParserError; shorter
\* lines are padded.
NoTable == [ok |-> FALSE, columns |-> <<>>, nrows |-> 0]
NonBlank(line) == \E i \in 1..Len(line) : line[i] # " "
Max(a, b) == IF a >= b THEN a ELSE b
read_csv(text) ==
    LET lines == SelectSeq(PySplit(text, "\n"), NonBlank)
        rows == [i \in 1..Len(lines) |-> PySplit(lines[i], ",")]
        expected == IF Len(rows) >= 2 THEN Max(Len(rows[1]), Len(rows[2])) ELSE 0
    IN IF Len(rows) = 0 THEN NoTable
       ELSE IF \E j \in 3..Len(rows) : Len(rows[j]) > expected
       THEN NoTable
       ELSE [ok |-> TRUE, columns |-> rows[1], nrows |-> Len(rows) - 1]

-----------------------------------------------------------------------------
(* The script *)

\* Displayed elements: a kind, a text (message or reply text) and, for the
\* table and its download, the parsed table
Item(k, v) == [kind |-> k, val |-> v, table |-> NoTable]
TableItem(k, df) == [kind |-> k, val |-> <<>>, table |-> df]
Prompt(k, c) == [kind |-> k, context |-> c]
NoSeg == [present |-> FALSE, raw |-> <<>>, clean |-> <<>>]

\* A faulty variant of StatusOk: the status is not looked at
StatusOkAlways(msg) == TRUE

\* if "(check mark)" in status_msg: only the success message carries the mark
\* (the failure messages are the fixed file name or the text of an OSError or
\* PyPDF2 exception)
StatusOk(msg) == msg = "loaded"

\* A faulty variant of HasTable: len(parts) >= 1
HasTableAlways(parts) == Len(parts) >= 1

\* len(parts) > 1
HasTable(parts) == Len(parts) > 1

RunEnd(p, rd, sh, sn, ex, h, et, ed) ==
    [pc |-> p, rendered |-> rd, shown |-> sh, sent |-> sn, raised |-> ex,
     halted |-> h, extra_text |-> et, extracted |-> ed]

\* extra = extract_text_from_uploaded_pdfs(uploaded_files) if uploaded_files else ""
ExtractIf(files) ==
    IF files # <<>> THEN extract_text_from_uploaded_pdfs(files)
    ELSE [text |-> <<>>, errors |-> <<>>]

ErrorItems(names) == [i \in 1..Len(names) |-> Item("error", <<"reading", names[i]>>)]

\* The query section of the script, from st.divider() to the generate_content
\* call.  sh, rd: what the run has displayed and drawn so far.
QuerySection(L, key, files, query, button, cfgFails, sh, rd) ==
    LET rd1 == rd \cup {"query"}
        rd2 == IF query # "" /\ key # "" THEN rd1 \cup {"consult"} ELSE rd1
        ex == ExtractIf(files)
        sh1 == sh \o ErrorItems(ex.errors)
    IN IF ~(query # "" /\ key # "" /\ button = "consult")
       THEN RunEnd("idle", rd2, sh, <<>>, "none", FALSE, <<>>, FALSE)
       ELSE IF cfgFails     \* genai.configure / GenerativeModel raise: no handler
       THEN RunEnd("idle", rd2, sh, <<>>, "configure", FALSE, <<>>, FALSE)
       ELSE IF L.isNone     \* None[:50000]
       THEN RunEnd("idle", rd2, sh1, <<>>, "TypeError", FALSE, ex.text, files # <<>>)
       ELSE RunEnd("query_wait", rd2, sh1, <<Prompt("query", QueryContext(L.text, ex.text))>>,
                   "none", FALSE, ex.text, files # <<>>)

\* The checklist button's handler, up to the generate_content call
ChecklistSection(L, key, files, query, cfgFails, sh, rd) ==
    LET ex == ExtractIf(files)
        sh1 == sh \o ErrorItems(ex.errors)
    IN IF key = ""
       THEN QuerySection(L, key, files, query, "generate", cfgFails,
                         Append(sh, Item("error", <<"enter key">>)), rd)
       ELSE IF cfgFails     \* genai.configure / GenerativeModel raise: no handler
       THEN RunEnd("idle", rd, sh1, <<>>, "configure", FALSE, ex.text, files # <<>>)
       ELSE IF L.isNone     \* None + "\n\n"
       THEN RunEnd("idle", rd, sh1, <<>>, "TypeError", FALSE, ex.text, files # <<>>)
       ELSE RunEnd("gen_wait", rd, sh1,
                   <<Prompt("checklist", ChecklistContext(L.text, ex.text))>>,
                   "none", FALSE, ex.text, files # <<>>)

\* One script run, from the top to its end or to the first generate_content call
RunOutcome(L, key, files, query, button, cfgFails) ==
    IF ~StatusOk(L.msg)
    THEN RunEnd("idle", {"api_key"},
                <<Item("error", <<L.msg>>), Item("warning", <<"ensure file">>)>>,
                <<>>, "none", TRUE, <<>>, FALSE)
    ELSE LET sh == <<Item("success", <<L.msg>>)>>
             rd == {"api_key", "uploader", "generate"}
         IN IF button = "generate"
            THEN ChecklistSection(L, key, files, query, cfgFails, sh, rd)
            ELSE QuerySection(L, key, files, query, button, cfgFails, sh, rd)

\* A script run with the given widget values and button
RunScript(key, files, query, button, cfgFails) ==
    LET L == CachedLoad(cache, disk)
        o == RunOutcome(L, key, files, query, button, cfgFails)
    IN /\ cache' = [set |-> TRUE, val |-> L]
       /\ api_key' = key
       /\ uploaded_files' = files
       /\ user_query' = query
       /\ pc' = o.pc
       /\ rendered' = o.rendered
       /\ shown' = o.shown
       /\ sent' = o.sent
       /\ raised' = o.raised
       /\ halted' = o.halted
       /\ extra_text' = o.extra_text
       /\ extracted' = o.extracted
       /\ result' = <<>>
       /\ seg' = NoSeg
       /\ UNCHANGED disk

\* Lines 171-180: split the reply on the header token, strip the fences of the
\* summary, re-prepend the token to the next part and clean it
recover(res) ==
    LET parts == PySplit(res, HeaderToken)
        csv_raw == <<HeaderToken>> \o parts[2]
    IN IF ~HasTable(parts)
       THEN [summary |-> StripFences(parts[1]), present |-> FALSE, indexError |-> FALSE,
             raw |-> <<>>, clean |-> <<>>]
       ELSE IF Len(parts) < 2      \* parts[1] of a one-element list
       THEN [summary |-> StripFences(parts[1]), present |-> FALSE, indexError |-> TRUE,
             raw |-> <<>>, clean |-> <<>>]
       ELSE [summary |-> StripFences(parts[1]), present |-> TRUE, indexError |-> FALSE,
             raw |-> csv_raw, clean |-> clean_csv_output(csv_raw)]

\* Lines 171-198: show the summary, materialize the table or show the raw text
ProcessOutput(res) ==
    LET r == recover(res)
        summary == Item("summary", r.summary)
        df == read_csv(r.clean)
        table == [present |-> TRUE, raw |-> r.raw, clean |-> r.clean]
    IN IF r.indexError
       THEN [shown |-> <<summary>>, seg |-> NoSeg, raised |-> "IndexError"]
       ELSE IF ~r.present
       THEN [shown |-> <<summary>>, seg |-> NoSeg, raised |-> "none"]
       ELSE IF df.ok
       THEN [shown |-> <<summary, Item("heading", <<"calendar">>), TableItem("dataframe", df),
                         TableItem("download", df)>>,
             seg |-> table, raised |-> "none"]
       ELSE [shown |-> <<summary, Item("heading", <<"calendar">>), Item("error", <<"csv format">>),
                         Item("raw", r.clean)>>,
             seg |-> table, raised |-> "none"]

-----------------------------------------------------------------------------
(* Actions *)

Init ==
    /\ disk \in DiskStates
    /\ cache = [set |-> FALSE, val |-> load_base_rules_text(DiskState("absent", 0))]
    /\ api_key = ""
    /\ uploaded_files = <<>>
    /\ user_query = ""
    /\ pc = "start"
    /\ rendered = {}
    /\ shown = <<>>
    /\ sent = <<>>
    /\ raised = "none"
    /\ halted = FALSE
    /\ extra_text = <<>>
    /\ extracted = FALSE
    /\ result = <<>>
    /\ seg = NoSeg

\* The browser session opens: the first script run
OpenSession ==
    /\ pc = "start"
    /\ RunScript(api_key, uploaded_files, user_query, "none", FALSE)

\* The user edits a widget the last run drew: the script reruns
SetApiKey ==
    /\ pc = "idle" /\ "api_key" \in rendered
    /\ \E k \in Keys \ {api_key} : RunScript(k, uploaded_files, user_query, "none", FALSE)

Upload ==
    /\ pc = "idle" /\ "uploader" \in rendered
    /\ \E fs \in Uploads \ {uploaded_files} : RunScript(api_key, fs, user_query, "none", FALSE)

TypeQuery ==
    /\ pc = "idle" /\ "query" \in rendered
    /\ \E q \in Queries \ {user_query} : RunScript(api_key, uploaded_files, q, "none", FALSE)

\* "Generate Yearly Checklist" is clicked
ClickGenerate ==
    /\ pc = "idle" /\ "generate" \in rendered
    /\ \E cfgFails \in BOOLEAN :
          RunScript(api_key, uploaded_files, user_query, "generate", cfgFails)

\* "Consult the Act" is clicked
ClickConsult ==
    /\ pc = "idle" /\ "consult" \in rendered
    /\ \E cfgFails \in BOOLEAN :
          RunScript(api_key, uploaded_files, user_query, "consult", cfgFails)

\* model.generate_content(prompt) of generate_compliance_checklist returns or
\* raises; the handler processes the result and the run goes on to its end.
ChecklistReturns(o) ==
    /\ pc = "gen_wait"
    /\ LET res == IF o.ok THEN o.text ELSE <<"x">> \o o.text   \* "Error calling Gemini: {e}"
           out == ProcessOutput(res)
           q == QuerySection(cache.val, api_key, uploaded_files, user_query, "generate",
                             FALSE, shown \o out.shown, rendered)
       IN /\ result' = res
          /\ seg' = out.seg
          /\ raised' = out.raised
          /\ shown' = IF out.raised = "none" THEN q.shown ELSE shown \o out.shown
          /\ rendered' = IF out.raised = "none" THEN q.rendered ELSE rendered
          /\ pc' = "idle"
    /\ UNCHANGED <<disk, cache, api_key, uploaded_files, user_query, sent, halted,
                   extra_text, extracted>>

\* q_model.generate_content(q_prompt) returns or raises (caught: st.error)
QueryReturns(o) ==
    /\ pc = "query_wait"
    /\ shown' = Append(shown, IF o.ok THEN Item("answer", o.text) ELSE Item("error", o.text))
    /\ pc' = "idle"
    /\ UNCHANGED <<disk, cache, api_key, uploaded_files, user_query, rendered, sent,
                   raised, halted, extra_text, extracted, result, seg>>

\* The operator removes A2013-18.pdf or puts a readable statute in place
DiskChange ==
    /\ \E d \in {DiskState("absent", 0), DiskState("ok", CtxBudget)} \ {disk} : disk' = d
    /\ UNCHANGED <<cache, api_key, uploaded_files, user_query, pc, rendered, shown,
                   sent, raised, halted, extra_text, extracted, result, seg>>

ChecklistReply == pc = "gen_wait" /\ \E o \in AppOutcomes : ChecklistReturns(o)

QueryReply == pc = "query_wait" /\ \E o \in AppOutcomes : QueryReturns(o)

Next ==
    \/ OpenSession
    \/ SetApiKey
    \/ Upload
    \/ TypeQuery
    \/ ClickGenerate
    \/ ClickConsult
    \/ ChecklistReply
    \/ QueryReply
    \/ DiskChange

Spec == Init /\ [][Next]_vars

\* Response recovery on its own: a checklist request is in flight, the base text
\* is loaded, and the reply ranges over every text of at most MaxReplyLen items.
InitRecover ==
    /\ disk = DiskState("ok", 0)
    /\ cache = [set |-> TRUE, val |-> load_base_rules_text(disk)]
    /\ api_key = "key"
    /\ uploaded_files = <<>>
    /\ user_query = ""
    /\ LET o == RunOutcome(cache.val, api_key, uploaded_files, user_query, "generate", FALSE)
       IN /\ pc = o.pc
          /\ rendered = o.rendered
          /\ shown = o.shown
          /\ sent = o.sent
          /\ raised = o.raised
          /\ halted = o.halted
          /\ extra_text = o.extra_text
          /\ extracted = o.extracted
    /\ result = <<>>
    /\ seg = NoSeg

NextRecover == pc = "gen_wait" /\ \E o \in AllOutcomes : ChecklistReturns(o)

SpecRecover == InitRecover /\ [][NextRecover]_vars

-----------------------------------------------------------------------------
(* Properties *)

BaseText == cache.val.text
Kinds == {shown[i].kind : i \in 1..Len(shown)}
Vals(k) == {shown[i].val : i \in {j \in 1..Len(shown) : shown[j].kind = k}}
FileNames == {f.name : f \in Files}
\* Streams a text draws characters from
Sources(t) == {t[i].src : i \in 1..Len(t)}

\* Position of the first occurrence of a in s (s contains a)
FirstIndex(s, a) == CHOOSE i \in 1..Len(s) : s[i] = a /\ \A j \in 1..(i - 1) : s[j] # a
BeforeFirst(s, a) == SubSeq(s, 1, FirstIndex(s, a) - 1)
AfterFirst(s, a) == SubSeq(s, FirstIndex(s, a) + 1, Len(s))

\* C1: the knowledge context embedded in a checklist prompt has at most
\* CtxBudget characters, and when the base text alone has CtxBudget characters
\* or more the context is the first CtxBudget characters of the base text,
\* whatever the uploads contributed.
C1_ContextWithinBudget ==
    \A i \in 1..Len(sent) :
        sent[i].kind = "checklist" =>
            /\ LenText(sent[i].context) <= CtxBudget
            /\ LenText(BaseText) >= CtxBudget => sent[i].context = Take(BaseText, CtxBudget)

\* C1 witness: a checklist prompt was sent with a base text that fills the
\* budget while the uploads contributed text.
C1_Witness ==
    /\ pc = "gen_wait"
    /\ sent # <<>>
    /\ LenText(BaseText) >= CtxBudget
    /\ extra_text # <<>>

\* C2: when the reply contains the header token, the segment handed to
\* cleaning is the token followed by everything after its first occurrence,
\* and the summary is everything before the first occurrence.
C2_TableSegmentIsRest ==
    Has(result, HeaderToken) =>
        /\ seg.present
        /\ seg.raw = <<HeaderToken>> \o AfterFirst(result, HeaderToken)
        /\ Vals("summary") = {StripFences(BeforeFirst(result, HeaderToken))}

\* C3: when the reply does not contain the header token, the whole reply with
\* the fences stripped is the summary, there is no table segment, and nothing
\* of the table path (heading, table, download, parse error, raw text) happens;
\* the run ends normally.
C3_NoHeaderNoTable ==
    (pc = "idle" /\ ~Has(result, HeaderToken)) =>
        /\ Vals("summary") = {StripFences(result)}
        /\ seg = NoSeg
        /\ Kinds \cap {"heading", "dataframe", "download", "error", "raw"} = {}
        /\ raised = "none"

\* C3 witness: a reply without the header token, with a fence in it, was processed.
C3_Witness ==
    /\ pc = "idle"
    /\ ~Has(result, HeaderToken)
    /\ Has(result, "F")
    /\ Has(result, ",")
    /\ "summary" \in Kinds

\* C4: recovering the concatenation of the summary and the table text of a
\* reply yields the same table text again.
C4_RecoverIdempotent ==
    seg.present =>
        \A s \in Vals("summary") : recover(s \o seg.clean).clean = seg.clean

\* C5: a displayed or downloadable table has exactly the five documented
\* columns, the first of which is the header token.
C5_FiveColumns ==
    \A i \in 1..Len(shown) :
        shown[i].kind \in {"dataframe", "download"} =>
            /\ Len(shown[i].table.columns) = 5
            /\ shown[i].table.columns[1] = <<HeaderToken>>

\* C6: when the reply contains the header token and the table segment has no
\* comma, the parse failure is reported with the raw cleaned text, no table is
\* displayed, no download is offered and no exception escapes.
C6_NoCommaParseFailure ==
    (seg.present /\ ~Has(seg.raw, ",")) =>
        /\ <<"csv format">> \in Vals("error")
        /\ Vals("raw") = {seg.clean}
        /\ Kinds \cap {"dataframe", "download"} = {}
        /\ raised = "none"

\* C6 witness: a table segment of several items, none a comma, was processed.
C6_Witness ==
    /\ pc = "idle"
    /\ seg.present
    /\ ~Has(seg.raw, ",")
    /\ Len(seg.raw) > 2
    /\ "raw" \in Kinds

\* Text of the files that parse, in upload order
RECURSIVE ParsedText(_)
ParsedText(files) ==
    IF files = <<>> THEN <<>>
    ELSE IF FileFails(Head(files)) THEN ParsedText(Tail(files))
    ELSE Cat(Lit(Head(files).name, PagesLen(Head(files).pages, Len(Head(files).pages))),
             ParsedText(Tail(files)))

Failing(files) == {i \in 1..Len(files) : FileFails(files[i])}

\* C7: when some uploads fail to parse and others parse, extraction reports
\* one error per failing file and returns exactly the text of the files that
\* parse, in upload order.
C7_FailingFilesSkipped ==
    (extracted /\ Failing(uploaded_files) # {}
               /\ Failing(uploaded_files) # 1..Len(uploaded_files)) =>
        /\ extra_text = ParsedText(uploaded_files)
        /\ Cardinality({i \in 1..Len(shown) : shown[i].kind = "error"
                                              /\ shown[i].val # <<"enter key">>})
             = Cardinality(Failing(uploaded_files))

\* C8: no failure of genai.configure or GenerativeModel escapes a script run.
C8_ResolutionNeverRaises == raised # "configure"

\* C9: once the base load has failed, every script run shows the error and
\* halts: nothing is extracted from the uploads and no prompt is sent.
C9_NoBaseNoRequest ==
    (cache.set /\ cache.val.isNone) =>
        /\ halted
        /\ pc = "idle"
        /\ Vals("error") = {<<cache.val.msg>>}
        /\ sent = <<>>
        /\ ~extracted

\* C9 witness: the load failed, the file has since become readable, and the
\* user has caused a later run (the key was typed in).
C9_Witness ==
    /\ cache.set
    /\ cache.val.isNone
    /\ disk.state = "ok"
    /\ api_key = "key"
    /\ halted

\* C10: a query prompt built from a base text that fills the knowledge-context
\* budget embeds no uploaded text.
C10_QueryBaseFirst ==
    \A i \in 1..Len(sent) :
        (sent[i].kind = "query" /\ LenText(BaseText) >= CtxBudget) =>
            Sources(sent[i].context) \cap FileNames = {}

=============================================================================
